---- MODULE Spec2Model ----
(***************************************************************************)
(* Model of the regex -> NFA -> DFA -> minimized DFA -> scanner pipeline   *)
(* (src/src/nfa.rs, src/src/dfa.rs) and of the hand-built lexical scanner  *)
(* (src/src/lib.rs, src/src/fa.rs).                                        *)
(*                                                                         *)
(* Conventions.  A char is a one-character string.  A str / Vec is a       *)
(* sequence.  State and column indices keep the 0-based values of the      *)
(* code; row i of a table is therefore element i+1 of the sequence.        *)
(* Option<T> is a sequence of length <= 1: <<>> is None, <<v>> is Some(v). *)
(* A panic is a record field panic = TRUE.                                 *)
(***************************************************************************)
EXTENDS Integers, Sequences, FiniteSets, TLC

\* ------------------------------------------------------------------ bounds
MaxRegexLen == 4
MaxWordLen == 3
MaxMark == 2
MaxDfaStates == 2
MaxLexLen == 4
MaxUnion == 2
MaxClassRegexLen == 1
MaxSeeds == 2
MaxFairRegexLen == 3

\* ----------------------------------------------------------- Vec helpers
Range(s) == {s[i] : i \in 1..Len(s)}

Last(s) == s[Len(s)]

Front(s) == SubSeq(s, 1, Len(s) - 1)

SetMax(S) == CHOOSE x \in S : \A y \in S : y <= x

SetMin(S) == CHOOSE x \in S : \A y \in S : x <= y

\* Iterator::max().unwrap_or_default() over usize values
MaxOrDefault(S) == IF S = {} THEN 0 ELSE SetMax(S)

\* the elements of a set of numbers in increasing order
SortedSeq(S) ==
    [k \in 1..Cardinality(S) |-> CHOOSE x \in S : Cardinality({y \in S : y < x}) = k - 1]

\* Vec::sort() followed by Vec::dedup()
SortDedup(v) == SortedSeq(Range(v))

\* Iterator::rev
Reverse(v) == [i \in 1..Len(v) |-> v[Len(v) + 1 - i]]

\* vec![x; n]
Repeat(x, n) == [i \in 1..n |-> x]

\* all sequences over S of length at most n
SeqsUpTo(S, n) == UNION {[1..k -> S] : k \in 0..n}

\* Option<Vec<usize>>::unwrap_or(vec![])
UnwrapOrEmpty(cell) == IF cell = <<>> THEN <<>> ELSE cell[1]

\* Option<usize>::unwrap_or(d)
UnwrapOr(opt, d) == IF opt = <<>> THEN d ELSE opt[1]

\* match cell { Some(states) => states.push(x), None => *cell = Some(vec![x]) }
PushCell(cell, x) == IF cell = <<>> THEN << <<x>> >> ELSE << Append(cell[1], x) >>

\* the same, at row state and column symbol of a transition table
PushAt(transition, state, symbol, x) ==
    [transition EXCEPT ![state + 1][symbol + 1] = PushCell(@, x)]

\* ------------------------------------------------- nfa.rs: postfix translator
OPERATORS == <<")", "(", "|", "+", "*">>

IsOperator(c) == \E i \in 1..Len(OPERATORS) : OPERATORS[i] = c

\* every operator has the same precedence
prec_Flat(operator) == 2

prec(operator) == (CHOOSE i \in 1..Len(OPERATORS) : OPERATORS[i] = operator) - 1

\* first loop of regex_to_postfix: insert '+' between consecutive terms
RECURSIVE InsertConcat(_, _, _, _, _)
InsertConcat(regex, i, previous_was_term, escape, token_list) ==
    IF i > Len(regex) THEN token_list
    ELSE LET token == regex[i]
             token_is_operator == IsOperator(token)
             plus == ~escape /\ previous_was_term
                        /\ (token = "(" \/ ~token_is_operator)
             term1 == IF escape THEN previous_was_term
                      ELSE (token \in {")", "*"} \/ ~token_is_operator)
             escape1 == escape \/ token = "\\"
         IN InsertConcat(regex, i + 1, term1, escape1,
                (IF plus THEN Append(token_list, "+") ELSE token_list) \o <<token>>)

\* the ')' arm: pop operators to the output up to the matching '('
RECURSIVE PopToParen(_, _)
PopToParen(op_stack, postfix_list) ==
    IF op_stack = <<>>
    THEN [panic |-> TRUE, op_stack |-> <<>>, postfix_list |-> postfix_list]
    ELSE IF Last(op_stack) = "("
         THEN [panic |-> FALSE, op_stack |-> Front(op_stack), postfix_list |-> postfix_list]
         ELSE PopToParen(Front(op_stack), Append(postfix_list, Last(op_stack)))

\* the '_' arm: pop while the stack top has precedence >= the incoming one
RECURSIVE PopWhile(_, _, _)
PopWhile(op_stack, postfix_list, precedence) ==
    IF op_stack # <<>> /\ prec(Last(op_stack)) >= precedence
    THEN PopWhile(Front(op_stack), Append(postfix_list, Last(op_stack)), precedence)
    ELSE [op_stack |-> op_stack, postfix_list |-> postfix_list]

\* second loop of regex_to_postfix, then the final flush of op_stack
RECURSIVE ShuntingYard(_, _, _, _, _)
ShuntingYard(token_list, i, postfix_list, op_stack, escape) ==
    IF i > Len(token_list)
    THEN [panic |-> FALSE,
          postfix |-> postfix_list \o [k \in 1..Len(op_stack) |-> op_stack[Len(op_stack) + 1 - k]]]
    ELSE LET token == token_list[i] IN
         IF escape
         THEN ShuntingYard(token_list, i + 1, Append(postfix_list, token), op_stack, FALSE)
         ELSE IF ~IsOperator(token)
         THEN ShuntingYard(token_list, i + 1, Append(postfix_list, token), op_stack,
                           token = "\\")
         ELSE IF token = "("
         THEN ShuntingYard(token_list, i + 1, postfix_list, Append(op_stack, token), FALSE)
         ELSE IF token = ")"
         THEN LET r == PopToParen(op_stack, postfix_list) IN
              IF r.panic THEN [panic |-> TRUE, postfix |-> <<>>]
              ELSE ShuntingYard(token_list, i + 1, r.postfix_list, r.op_stack, FALSE)
         ELSE LET r == PopWhile(op_stack, postfix_list, prec(token)) IN
              ShuntingYard(token_list, i + 1, r.postfix_list, Append(r.op_stack, token), FALSE)

regex_to_postfix(regex) ==
    ShuntingYard(InsertConcat(regex, 1, FALSE, FALSE, <<>>), 1, <<>>, <<>>, FALSE)

\* ------------------------------------------------- nfa.rs: fragment algebra
\* Iterator::position
Position(alphabet, symbol) ==
    IF \E i \in 1..Len(alphabet) : alphabet[i] = symbol
    THEN << SetMin({i \in 1..Len(alphabet) : alphabet[i] = symbol}) - 1 >>
    ELSE <<>>

FragSymbol(symbol, alphabet) ==
    IF Position(alphabet, symbol) = <<>>
    THEN [panic |-> TRUE, transition |-> <<>>, out |-> <<0, <<>> >>]
    ELSE [panic |-> FALSE,
          transition |-> << Repeat(<<>>, Len(alphabet) + 1) >>,
          out |-> <<0, Position(alphabet, symbol)>>]

FragEpsilon(alphabet) ==
    [panic |-> FALSE,
     transition |-> << Repeat(<<>>, Len(alphabet) + 1) >>,
     out |-> <<0, <<>> >>]

shifted(frag, shift) ==
    [panic |-> FALSE,
     transition |-> [s \in 1..Len(frag.transition) |->
                        [c \in 1..Len(frag.transition[s]) |->
                            IF frag.transition[s][c] = <<>> THEN <<>>
                            ELSE << [k \in 1..Len(frag.transition[s][c][1]) |->
                                        frag.transition[s][c][1][k] + shift] >>]],
     out |-> <<frag.out[1] + shift, frag.out[2]>>]

concatenate(a, b) ==
    LET a_num_states == Len(a.transition)
        extended_alphabet_size == Len(a.transition[1])
        b1 == shifted(b, a_num_states)
        transition == a.transition \o b1.transition
        out_state_index == a.out[1]
        out_symbol_index == UnwrapOr(a.out[2], extended_alphabet_size - 1)
    IN [panic |-> FALSE,
        transition |-> PushAt(transition, out_state_index, out_symbol_index, a_num_states),
        out |-> b1.out]

FragUnion(a, b) ==
    LET a_num_states == Len(a.transition)
        epsilon_index == Len(a.transition[1]) - 1
        alphabet_size == epsilon_index
        a1 == shifted(a, 1)
        b1 == shifted(b, 1 + a_num_states)
        t0 == << Repeat(<<>>, alphabet_size + 1) >> \o a1.transition \o b1.transition
                 \o << Repeat(<<>>, alphabet_size + 1) >>
        t1 == [t0 EXCEPT ![1][epsilon_index + 1] = << <<1, 1 + a_num_states>> >>]
        new_out_state_index == Len(t1) - 1
        t2 == PushAt(t1, a1.out[1], UnwrapOr(a1.out[2], epsilon_index), new_out_state_index)
        t3 == PushAt(t2, b1.out[1], UnwrapOr(b1.out[2], epsilon_index), new_out_state_index)
    IN [panic |-> FALSE, transition |-> t3, out |-> <<new_out_state_index, <<>> >>]

\* star without the edge from the old out-state back to the new start
star_NoLoop(old) ==
    LET extended_alphabet_size == Len(old.transition[1])
        old1 == shifted(old, 1)
        t0 == << Repeat(<<>>, extended_alphabet_size) >> \o old1.transition
        epsilon_index == extended_alphabet_size - 1
    IN [panic |-> FALSE,
        transition |-> [t0 EXCEPT ![1][epsilon_index + 1] = << <<1>> >>],
        out |-> <<0, <<>> >>]

star(old) ==
    LET extended_alphabet_size == Len(old.transition[1])
        old1 == shifted(old, 1)
        t0 == << Repeat(<<>>, extended_alphabet_size) >> \o old1.transition
        epsilon_index == extended_alphabet_size - 1
        t1 == [t0 EXCEPT ![1][epsilon_index + 1] = << <<1>> >>]
        out_symbol == UnwrapOr(old1.out[2], epsilon_index)
    IN [panic |-> FALSE,
        transition |-> PushAt(t1, old1.out[1], out_symbol, 0),
        out |-> <<0, <<>> >>]

PanicFrag == [panic |-> TRUE, transition |-> <<>>, out |-> <<0, <<>> >>]

\* the loop of NfaFragment::from_regex over the postfix tokens, then the final pop
RECURSIVE EvalPostfix(_, _, _, _, _)
EvalPostfix(postfix, i, eval_stack, escape, alphabet) ==
    IF i > Len(postfix)
    THEN IF eval_stack = <<>> THEN PanicFrag ELSE Last(eval_stack)
    ELSE LET token == postfix[i]
             n == Len(eval_stack)
         IN
         IF escape
         THEN LET f == IF token = "e" THEN FragEpsilon(alphabet) ELSE FragSymbol(token, alphabet) IN
              IF f.panic THEN PanicFrag
              ELSE EvalPostfix(postfix, i + 1, Append(eval_stack, f), FALSE, alphabet)
         ELSE IF token = "\\"
         THEN EvalPostfix(postfix, i + 1, eval_stack, TRUE, alphabet)
         ELSE IF ~IsOperator(token)
         THEN LET f == FragSymbol(token, alphabet) IN
              IF f.panic THEN PanicFrag
              ELSE EvalPostfix(postfix, i + 1, Append(eval_stack, f), FALSE, alphabet)
         ELSE IF token = "*"
         THEN IF n < 1 THEN PanicFrag
              ELSE EvalPostfix(postfix, i + 1,
                       Append(Front(eval_stack), star(eval_stack[n])), FALSE, alphabet)
         ELSE IF token = "+"
         THEN IF n < 2 THEN PanicFrag
              ELSE EvalPostfix(postfix, i + 1,
                       Append(SubSeq(eval_stack, 1, n - 2),
                              concatenate(eval_stack[n - 1], eval_stack[n])), FALSE, alphabet)
         ELSE IF token = "|"
         THEN IF n < 2 THEN PanicFrag
              ELSE EvalPostfix(postfix, i + 1,
                       Append(SubSeq(eval_stack, 1, n - 2),
                              FragUnion(eval_stack[n - 1], eval_stack[n])), FALSE, alphabet)
         ELSE PanicFrag

NfaFragment_from_regex(regex, alphabet) ==
    LET postfix == regex_to_postfix(regex) IN
    IF postfix.panic THEN PanicFrag
    ELSE EvalPostfix(postfix.postfix, 1, <<>>, FALSE, alphabet)

\* ------------------------------------------------- nfa.rs: Nfa
\* Nfa::new: HashMap::from_iter over (symbol, i); a later duplicate overwrites
Nfa_new(transition, marks, alphabet) ==
    [panic |-> FALSE,
     marks |-> marks,
     transition |-> transition,
     symbols_table |-> [c \in Range(alphabet) |->
                           SetMax({i \in 1..Len(alphabet) : alphabet[i] = c}) - 1]]

PanicNfa == [panic |-> TRUE, marks |-> <<>>, transition |-> <<>>, symbols_table |-> <<>>]

Nfa_from_regex(regex, alphabet, mark_num) ==
    LET fragment == NfaFragment_from_regex(regex, alphabet) IN
    IF fragment.panic THEN PanicNfa
    ELSE LET t0 == Append(fragment.transition, Repeat(<<>>, Len(fragment.transition[1])))
             out_state == fragment.out[1]
             num_states == Len(t0)
             out_symbol == UnwrapOr(fragment.out[2], Len(alphabet))
             transition == PushAt(t0, out_state, out_symbol, num_states - 1)
             marks == [i \in 1..num_states |-> IF i = num_states THEN mark_num ELSE 0]
         IN Nfa_new(transition, marks, alphabet)

\* the seeds alone: no epsilon edge is followed
ClosureLoop_SeedsOnly(nfa, target_stack, closure) ==
    [s \in 1..Len(closure) |-> closure[s] \/ (s - 1) \in Range(target_stack)]

\* loop of Nfa::empty_closure: depth-first walk over the epsilon column
RECURSIVE ClosureLoop(_, _, _)
ClosureLoop(nfa, target_stack, closure) ==
    LET epsilon_index == Len(nfa.transition[1]) - 1
        candidate == Last(target_stack)
        popped == Front(target_stack)
        range == UnwrapOrEmpty(nfa.transition[candidate + 1][epsilon_index + 1])
        NotIn(x) == ~closure[x + 1]
        stack1 == IF closure[candidate + 1] THEN popped
                  ELSE popped \o SelectSeq(range, NotIn)
        closure1 == [closure EXCEPT ![candidate + 1] = TRUE]
    IN IF stack1 = <<>> THEN closure1 ELSE ClosureLoop(nfa, stack1, closure1)

\* Nfa::empty_closure: None on an empty seed list (the first pop()? returns)
empty_closure(nfa, states) ==
    LET target_stack == SortDedup(states) IN
    IF target_stack = <<>> THEN <<>>
    ELSE LET closure == ClosureLoop(nfa, target_stack, Repeat(FALSE, Len(nfa.transition)))
         IN << SortedSeq({s \in 0..(Len(closure) - 1) : closure[s + 1]}) >>

\* ------------------------------------------------- nfa.rs: Nfa::union
\* every order in which a HashSet holding the elements of S can be iterated
Orders(S) ==
    {f \in [1..Cardinality(S) -> S] : \A i, j \in 1..Cardinality(S) : f[i] = f[j] => i = j}

\* the targets are copied without the offset
ShiftCell_NoOffset(cell, nfa_offset) == cell

\* states.into_iter().map(|x| nfa_offset + x), on an Option
ShiftCell(cell, nfa_offset) ==
    IF cell = <<>> THEN <<>>
    ELSE << [k \in 1..Len(cell[1]) |-> nfa_offset + cell[1][k]] >>

\* key_indices of one NFA: the symbols whose column is symbol_index
KeysAt(n, symbol_index) == {c \in DOMAIN n.symbols_table : n.symbols_table[c] = symbol_index}

\* body of `for state_index in 0..num_nfa_states`: the row of one state of one NFA
UnionRow(n, row, nfa_offset, symbols_table, symbols_num) ==
    LET translated_transitions == [c \in 1..Len(row) |-> ShiftCell(row[c], nfa_offset)]
        num_nfa_symbols == Cardinality({n.symbols_table[c] : c \in DOMAIN n.symbols_table})
        Sources(col) == {symbol_index \in 0..(num_nfa_symbols - 1) :
                            \E c \in KeysAt(n, symbol_index) : symbols_table[c] = col}
    IN [col \in 1..(symbols_num + 1) |->
           IF col = symbols_num + 1 THEN Last(translated_transitions)
           ELSE IF Sources(col - 1) # {}
                THEN translated_transitions[SetMax(Sources(col - 1)) + 1]
                ELSE <<>>]

\* key_indices[&symbol_index] panics when no symbol has that column
UnionLookupPanics(n) ==
    LET num_nfa_symbols == Cardinality({n.symbols_table[c] : c \in DOMAIN n.symbols_table})
    IN \E symbol_index \in 0..(num_nfa_symbols - 1) : KeysAt(n, symbol_index) = {}

\* the loop `for nfa in nfas.iter()` that appends the rows of nfas[i..]
RECURSIVE UnionLoop(_, _, _, _, _, _)
UnionLoop(nfas, i, nfa_offset, symbols_table, symbols_num, acc) ==
    IF i > Len(nfas) THEN acc
    ELSE LET n == nfas[i]
             num_nfa_states == Len(n.marks)
             rows == [s \in 1..num_nfa_states |->
                        UnionRow(n, n.transition[s], nfa_offset, symbols_table, symbols_num)]
         IN UnionLoop(nfas, i + 1, nfa_offset + num_nfa_states, symbols_table, symbols_num,
                [panic |-> acc.panic \/ (num_nfa_states > 0 /\ UnionLookupPanics(n)),
                 transition |-> acc.transition \o rows,
                 marks |-> acc.marks \o n.marks,
                 new_start_epsilon_transitions |->
                     Append(acc.new_start_epsilon_transitions, nfa_offset)])

\* the symbols of all the NFAs
UnionSymbols(nfas) == UNION {DOMAIN nfas[i].symbols_table : i \in 1..Len(nfas)}

\* Nfa::union; order is the order in which the HashSet symbols is iterated
Nfa_union(nfas, order) ==
    LET symbols_num == Len(order)
        symbols_table == [c \in Range(order) |->
                             (CHOOSE i \in 1..Len(order) : order[i] = c) - 1]
        r == UnionLoop(nfas, 1, 1, symbols_table, symbols_num,
                 [panic |-> FALSE,
                  transition |-> << Repeat(<<>>, symbols_num + 1) >>,
                  marks |-> <<0>>,
                  new_start_epsilon_transitions |-> <<>>])
    IN IF r.panic THEN PanicNfa
       ELSE [panic |-> FALSE,
             marks |-> r.marks,
             transition |-> [r.transition EXCEPT ![1][symbols_num + 1] =
                                << r.new_start_epsilon_transitions >>],
             symbols_table |-> symbols_table]

\* ------------------------------------------------- dfa.rs: subset construction
\* HashMap<Vec<usize>, usize> whose values are 0, 1, 2, ... in insertion order:
\* the sequence of its keys, the value of key subset_table[i] being i - 1
ContainsKey(subset_table, key) == \E i \in 1..Len(subset_table) : subset_table[i] = key

\* the key is always found at value 0
IndexOfKey_Zero(subset_table, key) == 0

IndexOfKey(subset_table, key) ==
    (CHOOSE i \in 1..Len(subset_table) : subset_table[i] = key) - 1

\* the marks of a subset combined by min
SubsetMark_Min(nfa, subset) ==
    IF subset = <<>> THEN 0 ELSE SetMin({nfa.marks[subset[i] + 1] : i \in 1..Len(subset)})

\* marks of the NFA states of a subset, combined by max (0 for the empty subset)
SubsetMark(nfa, subset) == MaxOrDefault({nfa.marks[subset[i] + 1] : i \in 1..Len(subset)})

\* for &nfa_state in &dfa_state { candidate = [candidate, range_states].concat() }
RECURSIVE MoveTargets(_, _, _, _)
MoveTargets(nfa, dfa_state, symbol, i) ==
    IF i > Len(dfa_state) THEN <<>>
    ELSE UnwrapOrEmpty(nfa.transition[dfa_state[i] + 1][symbol + 1])
            \o MoveTargets(nfa, dfa_state, symbol, i + 1)

\* the move set without its epsilon closure
Candidate_NoClosure(nfa, dfa_state, symbol) ==
    SortDedup(MoveTargets(nfa, dfa_state, symbol, 1))

\* candidate.sort(); candidate.dedup(); nfa.empty_closure(candidate).unwrap_or(vec![])
Candidate(nfa, dfa_state, symbol) ==
    UnwrapOrEmpty(empty_closure(nfa, SortDedup(MoveTargets(nfa, dfa_state, symbol, 1))))

\* body of `for &symbol in alphabet` for the popped subset, symbols symbol..K-1
RECURSIVE SymbolLoop(_, _, _, _, _)
SymbolLoop(nfa, dfa_state, dfa_index, symbol, st) ==
    IF symbol >= Cardinality(DOMAIN nfa.symbols_table) THEN st
    ELSE LET candidate == Candidate(nfa, dfa_state, symbol) IN
         IF ContainsKey(st.subset_table, candidate)
         THEN SymbolLoop(nfa, dfa_state, dfa_index, symbol + 1,
                  [st EXCEPT !.transition[dfa_index + 1][symbol + 1] =
                                 IndexOfKey(st.subset_table, candidate)])
         ELSE LET count1 == st.state_count + 1
                  alphabet_size == Cardinality(DOMAIN nfa.symbols_table)
                  pushed == Append(st.transition, Repeat(0, alphabet_size))
              IN SymbolLoop(nfa, dfa_state, dfa_index, symbol + 1,
                  [state_count |-> count1,
                   transition |-> [pushed EXCEPT ![dfa_index + 1][symbol + 1] = count1],
                   stack |-> Append(st.stack, candidate),
                   marks |-> Append(st.marks, SubsetMark(nfa, candidate)),
                   subset_table |-> Append(st.subset_table, candidate)])

\* ------------------------------------------------- dfa.rs: Dfa
Dfa(marks, transition, symbol_indices) ==
    [marks |-> marks, transition |-> transition, symbol_indices |-> symbol_indices]

NoDfa == Dfa(<<>>, <<>>, <<>>)

\* the state Dfa::accepts is in after reading word[1..n] (n bytes, all in the alphabet)
RECURSIVE RunFrom(_, _, _)
RunFrom(d, state, word) ==
    IF word = <<>> THEN state
    ELSE RunFrom(d, d.transition[state + 1][d.symbol_indices[Head(word)] + 1], Tail(word))

Dfa_accepts(d, word) ==
    IF \E i \in 1..Len(word) : word[i] \notin DOMAIN d.symbol_indices THEN FALSE
    ELSE d.marks[RunFrom(d, 0, word) + 1] > 0

\* ------------------------------------------------- dfa.rs: DfaCloud
\* sorted_by_key(|x| x[0]) on groups whose first states are distinct
SortedByFirst(S) ==
    [k \in 1..Cardinality(S) |->
        CHOOSE x \in S : Cardinality({y \in S : y[1] < x[1]}) = k - 1]

\* items.map(|x| (key(x), x)).into_group_map().into_values().sorted_by_key(|x| x[0]),
\* keys[i] being the key of items[i]; a group keeps the order of items
GroupMapSorted(items, keys) ==
    SortedByFirst({ LET members == SortedSeq({j \in 1..Len(items) : keys[j] = keys[i]})
                    IN [n \in 1..Len(members) |-> items[members[n]]]
                    : i \in 1..Len(items) })

DfaCloud_from_dfa(d) ==
    LET groups == GroupMapSorted([i \in 1..Len(d.marks) |-> i - 1], d.marks)
        GroupOf(s) == CHOOSE g \in 1..Len(groups) : s \in Range(groups[g])
    IN [state_transition |-> d.transition,
        groups |-> groups,
        state_groups |-> [s \in 1..Len(d.marks) |->
                            IF Len(groups) > 1 THEN GroupOf(s - 1) - 1 ELSE 0],
        marks |-> d.marks]

get_group_transitions(cloud, group_index, translate) ==
    LET row == cloud.state_transition[cloud.groups[group_index + 1][1] + 1]
    IN [c \in 1..Len(row) |->
            IF translate = <<>> THEN cloud.state_groups[row[c] + 1]
            ELSE translate[1][cloud.state_groups[row[c] + 1] + 1]]

\* regrouping on the first column of the row only
DivideKey_FirstColumn(cloud, x) == cloud.state_transition[x + 1][1]

\* regrouping on the state itself: no two states share a block
DivideKey_State(cloud, x) == <<x, cloud.state_transition[x + 1]>>

\* the key on which DfaCloud::divide regroups the members of a block
DivideKey(cloud, x) == cloud.state_transition[x + 1]

\* the blocks after the split one keep their old index in state_groups
DivideSplit_NoShift(cloud, current_group_index, subgroups) ==
    LET subgroup_num == Len(subgroups)
        removed == SubSeq(cloud.groups, 1, current_group_index)
                      \o SubSeq(cloud.groups, current_group_index + 2, Len(cloud.groups))
        SubOf(x) == CHOOSE i \in 1..subgroup_num : x \in Range(subgroups[i])
        first_half == SubSeq(removed, 1, current_group_index)
        second_half == SubSeq(removed, current_group_index + 1, Len(removed))
    IN [cloud EXCEPT
          !.state_groups = [s \in 1..Len(cloud.state_groups) |->
              IF \E i \in 1..subgroup_num : (s - 1) \in Range(subgroups[i])
              THEN current_group_index + SubOf(s - 1) - 1
              ELSE cloud.state_groups[s]],
          !.groups = first_half \o subgroups \o second_half]

\* the block is left as it is
DivideSplit_Keep(cloud, current_group_index, subgroups) == cloud

\* one iteration of the while loop of DfaCloud::divide that splits the block
DivideSplit(cloud, current_group_index, subgroups) ==
    LET subgroup_num == Len(subgroups)
        removed == SubSeq(cloud.groups, 1, current_group_index)
                      \o SubSeq(cloud.groups, current_group_index + 2, Len(cloud.groups))
        later == UNION {Range(removed[g]) : g \in (current_group_index + 1)..Len(removed)}
        SubOf(x) == CHOOSE i \in 1..subgroup_num : x \in Range(subgroups[i])
        first_half == SubSeq(removed, 1, current_group_index)
        second_half == SubSeq(removed, current_group_index + 1, Len(removed))
    IN [cloud EXCEPT
          !.state_groups = [s \in 1..Len(cloud.state_groups) |->
              IF \E i \in 1..subgroup_num : (s - 1) \in Range(subgroups[i])
              THEN current_group_index + SubOf(s - 1) - 1
              ELSE IF (s - 1) \in later THEN cloud.state_groups[s] + subgroup_num - 1
              ELSE cloud.state_groups[s]],
          !.groups = first_half \o subgroups \o second_half]

\* Vec::swap
Swap(v, i, j) == [v EXCEPT ![i + 1] = v[j + 1], ![j + 1] = v[i + 1]]

\* the for loop of into_dfa_graph over the groups i..groups.len()-1
RECURSIVE GraphLoop(_, _, _, _, _)
GraphLoop(cloud, translated, group0_index, i, acc) ==
    IF i >= Len(cloud.groups) THEN acc
    ELSE LET group == cloud.groups[i + 1]
             mark == MaxOrDefault({cloud.marks[group[k] + 1] : k \in 1..Len(group)})
             marks1 == [acc.marks EXCEPT ![translated[i + 1] + 1] = mark]
             transition1 == IF i # group0_index
                            THEN Append(acc.transition,
                                        get_group_transitions(cloud, i, <<translated>>))
                            ELSE acc.transition
         IN GraphLoop(cloud, translated, group0_index, i + 1,
                      [transition |-> transition1, marks |-> marks1])

\* the last block is presented as state 0
into_dfa_graph_LastFirst(cloud) ==
    LET group0_index == Len(cloud.groups) - 1
        translated == Swap([i \in 1..Len(cloud.state_groups) |-> i - 1], 0, group0_index)
        state0_transition == get_group_transitions(cloud, group0_index, <<translated>>)
    IN GraphLoop(cloud, translated, group0_index, 0,
                 [transition |-> <<state0_transition>>,
                  marks |-> Repeat(0, Len(cloud.groups))])

into_dfa_graph(cloud) ==
    LET group0_index == cloud.state_groups[1]
        translated == Swap([i \in 1..Len(cloud.state_groups) |-> i - 1], 0, group0_index)
        state0_transition == get_group_transitions(cloud, group0_index, <<translated>>)
    IN GraphLoop(cloud, translated, group0_index, 0,
                 [transition |-> <<state0_transition>>,
                  marks |-> Repeat(0, Len(cloud.groups))])

NoCloud == [state_transition |-> <<>>, groups |-> <<>>, state_groups |-> <<>>, marks |-> <<>>]

\* ------------------------------------------------- fa.rs: the boolean Dfa
\* HashMap filled by insert in iteration order: the last occurrence of a key wins
IndexMap(keys) ==
    [k \in Range(keys) |-> SetMax({i \in 1..Len(keys) : keys[i] = k}) - 1]

\* fa::Dfa::new(states, alphabet, transitions); states are (name, accepting) pairs and
\* transitions[i] lists the (symbol, target name) arrows of state i
FaDfa_new(states, alpha, transitions) ==
    LET state_indices == IndexMap([i \in 1..Len(states) |-> states[i][1]])
        symbol_indices == IndexMap(alpha)
        Arrows(s, c) == {j \in 1..Len(transitions[s]) :
                            symbol_indices[transitions[s][j][1]] = c - 1}
    IN [accept |-> [i \in 1..Len(states) |-> states[i][2]],
        transition |-> [s \in 1..Len(states) |-> [c \in 1..Len(alpha) |->
                           IF s <= Len(transitions) /\ Arrows(s, c) # {}
                           THEN state_indices[transitions[s][SetMax(Arrows(s, c))][2]]
                           ELSE 0]],
        symbol_indices |-> symbol_indices]

\* fa::Dfa::accepts
RECURSIVE FaRun(_, _, _)
FaRun(d, state, w) ==
    IF w = <<>> THEN state
    ELSE FaRun(d, d.transition[state + 1][d.symbol_indices[Head(w)] + 1], Tail(w))

FaDfa_accepts(d, w) ==
    IF \E i \in 1..Len(w) : w[i] \notin DOMAIN d.symbol_indices THEN FALSE
    ELSE d.accept[FaRun(d, 0, w) + 1]

\* the for loop of fa::Dfa::get_longest_accepted over istream[index..]:
\* the last index at which the state reached accepts, as an Option
RECURSIVE LastAccepting(_, _, _, _, _)
LastAccepting(d, queue, index, state, last_accepting_index) ==
    IF index >= Len(queue) THEN last_accepting_index
    ELSE IF queue[index + 1] \notin DOMAIN d.symbol_indices THEN last_accepting_index
    ELSE LET state1 == d.transition[state + 1][d.symbol_indices[queue[index + 1]] + 1]
         IN LastAccepting(d, queue, index + 1, state1,
                IF d.accept[state1 + 1] THEN <<index>> ELSE last_accepting_index)

\* fa::Dfa::get_longest_accepted: the queue is read, not popped
FaDfa_get_longest_accepted(d, queue) ==
    LET last_accepting_index == LastAccepting(d, queue, 0, 0, <<>>)
    IN IF last_accepting_index = <<>> THEN <<>>
       ELSE SubSeq(queue, 1, last_accepting_index[1] + 1)

\* ------------------------------------------------- lib.rs: the five class automata
DIGITS == <<"0", "1", "2", "3", "4", "5", "6", "7", "8", "9">>

LETTERS ==
    <<"a", "b", "c", "d", "e", "f", "g", "h", "i", "j", "k", "l", "m",
      "n", "o", "p", "q", "r", "s", "t", "u", "v", "w", "x", "y", "z",
      "A", "B", "C", "D", "E", "F", "G", "H", "I", "J", "K", "L", "M",
      "N", "O", "P", "Q", "R", "S", "T", "U", "V", "W", "X", "Y", "Z", "_">>

make_keyword_dfa ==
    LET states == << <<"0", FALSE>>, <<"v", FALSE>>, <<"a", FALSE>>, <<"r", TRUE>>,
                     <<"E", FALSE>> >>
        alpha == <<"v", "a", "r">>
        transitions == [s \in 1..Len(states) |-> [c \in 1..Len(alpha) |->
                          IF (s - 1) <= 2 /\ states[s + 1][1] = alpha[c]
                          THEN <<alpha[c], alpha[c]>>
                          ELSE <<alpha[c], "E">>]]
    IN FaDfa_new(states, alpha, transitions)

make_integer_dfa ==
    LET states == << <<"0", FALSE>>, <<"1", TRUE>> >>
        alpha == DIGITS
        transitions == [s \in 1..Len(states) |-> [c \in 1..Len(alpha) |-> <<alpha[c], "1">>]]
    IN FaDfa_new(states, alpha, transitions)

make_identifier_dfa ==
    LET states == << <<"0", FALSE>>, <<"L", TRUE>>, <<"D", FALSE>> >>
        alpha == LETTERS \o DIGITS
        transitions == [s \in 1..Len(states) |-> [c \in 1..Len(alpha) |->
                          IF states[s][1] = "0"
                          THEN IF alpha[c] \in Range(LETTERS) THEN <<alpha[c], "L">>
                               ELSE <<alpha[c], "D">>
                          ELSE <<alpha[c], states[s][1]>>]]
    IN FaDfa_new(states, alpha, transitions)

make_operator_dfa ==
    LET states == << <<"0", FALSE>>, <<"1", TRUE>>, <<"E", FALSE>> >>
        alpha == <<"+", "-", "*", "/", "=">>
        transitions == [s \in 1..Len(states) |-> [c \in 1..Len(alpha) |->
                          IF states[s][1] = "0" THEN <<alpha[c], "1">>
                          ELSE <<alpha[c], "E">>]]
    IN FaDfa_new(states, alpha, transitions)

\* the alphabet is " ;\n\r\t\0"; the NUL byte is written "NUL"
make_ignored_dfa ==
    LET states == << <<"0", FALSE>>, <<"1", TRUE>>, <<"E", FALSE>> >>
        alpha == <<" ", ";", "\n", "\r", "\t", "NUL">>
        transitions == [s \in 1..Len(states) |-> [c \in 1..Len(alpha) |->
                          IF states[s][1] = "0" THEN <<alpha[c], "1">>
                          ELSE <<alpha[c], "E">>]]
    IN FaDfa_new(states, alpha, transitions)

\* the array machines of lexical_scan: (class name, automaton) in this order
machines ==
    << [class |-> "ignored", machine |-> make_ignored_dfa],
       [class |-> "identifier", machine |-> make_identifier_dfa],
       [class |-> "keyword", machine |-> make_keyword_dfa],
       [class |-> "operator", machine |-> make_operator_dfa],
       [class |-> "integer", machine |-> make_integer_dfa] >>

\* Iterator::max_by_key(|(name, _)| name.len()): the last element of maximal key,
\* None on an empty iterator.  items[i] is a (name, class) record.
RECURSIVE MaxByKeyFrom(_, _, _)
MaxByKeyFrom(items, i, best) ==
    IF i > Len(items) THEN best
    ELSE MaxByKeyFrom(items, i + 1,
            IF Len(items[i].name) >= Len(best.name) THEN items[i] ELSE best)

\* the first element of maximal key instead of the last
MaxByKey_First(items) ==
    IF items = <<>> THEN <<>>
    ELSE << items[SetMin({i \in 1..Len(items) :
                \A j \in 1..Len(items) : Len(items[j].name) <= Len(items[i].name)})] >>

MaxByKey(items) ==
    IF items = <<>> THEN <<>> ELSE << MaxByKeyFrom(items, 2, items[1]) >>

\* the map/max_by_key expression at the top of the loop body of lexical_scan
LongestAccepted(queue) ==
    MaxByKey([i \in 1..Len(machines) |->
                [name |-> FaDfa_get_longest_accepted(machines[i].machine, queue),
                 class |-> machines[i].class]])

\* no class is skipped
ContainsIgnored_Never(c) == FALSE

\* class.contains("ignored")
ContainsIgnored(c) == c = "ignored"

\* HashMap::insert of one entry
MapInsert(table, key, value) ==
    [k \in (DOMAIN table) \cup {key} |-> IF k = key THEN value ELSE table[k]]

\* for _ in 0..name_len { istream.pop_front(); }
RECURSIVE PopFront(_, _)
PopFront(queue, n) ==
    IF n = 0 \/ queue = <<>> THEN queue ELSE PopFront(Tail(queue), n - 1)

\* ------------------------------------------------------------------ state
VARIABLES
    pc,                    \* position in the pipeline
    regex, alphabet, mark_num,      \* arguments of Dfa::from_regex
    nfas,                  \* argument of Nfa::union
    seeds, closure,        \* argument and result of Nfa::empty_closure
    nfa,                   \* result of Nfa::from_regex
    subset_table, transition, marks, stack, state_count,   \* locals of Dfa::from_nfa
    dfa,                   \* the Dfa built at the end of the subset construction
    cloud, current_group_index,     \* the DfaCloud of Dfa::minimized and the cursor of divide
    minimized,             \* result of Dfa::minimized
    word, accepted,        \* argument and result of Dfa::accepts
    istream, current_state, last_mark, longest_accepted, token_buffer,  \* get_longest_accepted
    scan_result,           \* its return value
    symbol_table, name, class,      \* locals of lexical_scan (lib.rs)
    lex_result             \* its return value

regexVars == <<regex, alphabet, mark_num, nfas>>
closureVars == <<seeds, closure>>
subsetVars == <<subset_table, transition, marks, stack, state_count>>
cloudVars == <<cloud, current_group_index>>
scanVars == <<istream, current_state, last_mark, longest_accepted, token_buffer, scan_result>>

lexVars == <<symbol_table, name, class, lex_result>>

vars == <<pc, regexVars, nfa, subsetVars, dfa, cloudVars, minimized, word, accepted, scanVars,
          lexVars, closureVars>>

\* ------------------------------------------------------------------ inputs
RegexSymbols == {"a", "b", "(", ")", "|", "*"}

\* the literal scenarios: (a|b)*, (cd)*, (a|b)*a(a|b) and a|bc*
ScenarioRegexes ==
    { [regex |-> <<"(", "a", "|", "b", ")", "*">>, alphabet |-> <<"a", "b">>],
      [regex |-> <<"a", "|", "b", "c", "*">>, alphabet |-> <<"a", "b", "c">>],
      [regex |-> <<"(", "c", "d", ")", "*">>, alphabet |-> <<"c", "d">>],
      [regex |-> <<"(", "a", "|", "b", ")", "*", "a", "(", "a", "|", "b", ")">>,
       alphabet |-> <<"a", "b">>] }

\* regexes over an alphabet that holds the character '+'
PlusRegexes ==
    { [regex |-> r, alphabet |-> <<"a", "+">>] : r \in SeqsUpTo({"a", "+"}, MaxRegexLen) }

\* regexes with escapes
EscapeRegexes ==
    { [regex |-> r, alphabet |-> <<"a", "b">>] :
        r \in SeqsUpTo({"a", "b", "\\", "*"}, MaxRegexLen) }

RegexInputs ==
    { [regex |-> r, alphabet |-> <<"a", "b">>] : r \in SeqsUpTo(RegexSymbols, MaxRegexLen) }
        \cup ScenarioRegexes \cup PlusRegexes \cup EscapeRegexes

\* seed lists handed to empty_closure: up to MaxSeeds states, in decreasing order
SeedInputs(n) ==
    { Reverse(SortedSeq(S)) : S \in {T \in SUBSET (0..(Len(n.marks) - 1)) :
                                        Cardinality(T) <= MaxSeeds} }

\* the per-class NFAs handed to Nfa::union: the two of test_nfa_union and every NFA
\* that Nfa::from_regex returns for a short regex over "ab" or "bc"
ClassAlphabets == { <<"a", "b">>, <<"b", "c">> }

ClassNfas ==
    { Nfa_from_regex(<<"(", "a", "|", "b", ")", "*">>, <<"a", "b">>, 1),
      Nfa_from_regex(<<"(", "c", "d", ")", "*">>, <<"c", "d">>, 2) }
    \cup { n \in { Nfa_from_regex(i.regex, i.alphabet, i.mark_num) :
                     i \in UNION { [regex : SeqsUpTo(Range(al) \cup {"*"}, MaxClassRegexLen),
                                    alphabet : {al}, mark_num : 1..MaxMark]
                                   : al \in ClassAlphabets } }
           : ~n.panic }

UnionInputs == SeqsUpTo(ClassNfas, MaxUnion)

ScenarioWords ==
    { <<"a", "b", "b", "a">>, <<"c", "d", "c", "d">>, <<"c", "d">>, <<"d", "c">>, <<"c">> }

\* words over the alphabet and one byte outside of "ab"
Words(alpha) == SeqsUpTo(Range(alpha) \cup {"c"}, MaxWordLen) \cup ScenarioWords

InitRest ==
    /\ subset_table = <<>> /\ transition = <<>> /\ marks = <<>> /\ stack = <<>>
    /\ state_count = 0
    /\ cloud = NoCloud /\ current_group_index = 0
    /\ minimized = NoDfa
    /\ word = <<>> /\ accepted = FALSE
    /\ istream = <<>> /\ current_state = 0 /\ last_mark = 0
    /\ longest_accepted = <<>> /\ token_buffer = <<>>
    /\ scan_result = <<>>
    /\ seeds = <<>> /\ closure = <<>>

InitLexRest ==
    /\ symbol_table = <<>> /\ name = <<>> /\ class = "" /\ lex_result = <<>>

Init ==
    /\ pc = "start"
    /\ \E i \in RegexInputs : regex = i.regex /\ alphabet = i.alphabet
    /\ mark_num \in 1..MaxMark
    /\ nfas = <<>>
    /\ nfa = PanicNfa
    /\ dfa = NoDfa
    /\ InitRest
    /\ InitLexRest

\* --------------------------------------------------------------- actions
\* Nfa::from_regex (called from Dfa::from_regex)
NfaFromRegex ==
    /\ pc = "start"
    /\ nfa' = Nfa_from_regex(regex, alphabet, mark_num)
    /\ pc' = IF nfa'.panic THEN "panic" ELSE "nfa"
    /\ UNCHANGED <<regexVars, subsetVars, dfa, cloudVars, minimized, word, accepted, scanVars>>
    /\ UNCHANGED <<lexVars, closureVars>>

\* Nfa::union; the HashSet of symbols is iterated in any order
NfaUnion ==
    /\ pc = "classes"
    /\ \E order \in Orders(UnionSymbols(nfas)) : nfa' = Nfa_union(nfas, order)
    /\ pc' = IF nfa'.panic THEN "panic" ELSE "nfa"
    /\ UNCHANGED <<regexVars, subsetVars, dfa, cloudVars, minimized, word, accepted, scanVars>>
    /\ UNCHANGED <<lexVars, closureVars>>

\* Nfa::empty_closure on the NFA built
EmptyClosureCall ==
    /\ pc = "nfa"
    /\ \E states \in SeedInputs(nfa) :
          /\ seeds' = states
          /\ closure' = empty_closure(nfa, states)
    /\ pc' = "closed"
    /\ UNCHANGED <<regexVars, nfa, subsetVars, dfa, cloudVars, minimized, word, accepted,
                   scanVars, lexVars>>

\* Dfa::from_nfa up to the while loop
SubsetStart ==
    /\ pc = "nfa"
    /\ LET start_state == UnwrapOrEmpty(empty_closure(nfa, <<0>>)) IN
        /\ subset_table' = <<start_state>>
        /\ transition' = << Repeat(0, Cardinality(DOMAIN nfa.symbols_table)) >>
        /\ marks' = << SubsetMark(nfa, start_state) >>
        /\ stack' = <<start_state>>
        /\ state_count' = 0
    /\ pc' = "subset"
    /\ UNCHANGED <<regexVars, nfa, dfa, cloudVars, minimized, word, accepted, scanVars>>
    /\ UNCHANGED <<lexVars, closureVars>>

\* one iteration of `while !stack.is_empty()`
SubsetStep ==
    /\ pc = "subset"
    /\ stack # <<>>
    /\ LET dfa_state == Last(stack)
           dfa_index == IndexOfKey(subset_table, dfa_state)
           st == SymbolLoop(nfa, dfa_state, dfa_index, 0,
                    [state_count |-> state_count, transition |-> transition,
                     stack |-> Front(stack), marks |-> marks,
                     subset_table |-> subset_table])
       IN /\ subset_table' = st.subset_table
          /\ transition' = st.transition
          /\ marks' = st.marks
          /\ stack' = st.stack
          /\ state_count' = st.state_count
    /\ UNCHANGED <<pc, regexVars, nfa, dfa, cloudVars, minimized, word, accepted, scanVars>>
    /\ UNCHANGED <<lexVars, closureVars>>

\* the worklist is empty: build the Dfa that is handed to minimized()
SubsetDone ==
    /\ pc = "subset"
    /\ stack = <<>>
    /\ dfa' = Dfa(marks, transition, nfa.symbols_table)
    /\ pc' = "built"
    /\ UNCHANGED <<regexVars, nfa, subsetVars, cloudVars, minimized, word, accepted, scanVars>>
    /\ UNCHANGED <<lexVars, closureVars>>

\* Dfa::minimized: DfaCloud::from_dfa
FromDfa ==
    /\ pc = "built"
    /\ cloud' = DfaCloud_from_dfa(dfa)
    /\ current_group_index' = 0
    /\ pc' = "divide"
    /\ UNCHANGED <<regexVars, nfa, subsetVars, dfa, minimized, word, accepted, scanVars>>
    /\ UNCHANGED <<lexVars, closureVars>>

\* one iteration of the while loop of DfaCloud::divide
DivideStep ==
    /\ pc = "divide"
    /\ current_group_index < Len(cloud.groups)
    /\ LET current_group == cloud.groups[current_group_index + 1]
           subgroups == GroupMapSorted(current_group,
                            [i \in 1..Len(current_group) |-> DivideKey(cloud, current_group[i])])
       IN IF Len(subgroups) = 0
          THEN pc' = "panic" /\ UNCHANGED cloudVars
          ELSE IF Len(subgroups) = 1
          THEN /\ current_group_index' = current_group_index + 1
               /\ UNCHANGED <<pc, cloud>>
          ELSE /\ cloud' = DivideSplit(cloud, current_group_index, subgroups)
               /\ current_group_index' = 0
               /\ UNCHANGED pc
    /\ UNCHANGED <<regexVars, nfa, subsetVars, dfa, minimized, word, accepted, scanVars>>
    /\ UNCHANGED <<lexVars, closureVars>>

\* divide has returned: into_dfa_graph and the Dfa returned by minimized()
IntoDfaGraph ==
    /\ pc = "divide"
    /\ current_group_index >= Len(cloud.groups)
    /\ LET g == into_dfa_graph(cloud)
       IN minimized' = Dfa(g.marks, g.transition, dfa.symbol_indices)
    /\ pc' = "ready"
    /\ UNCHANGED <<regexVars, nfa, subsetVars, dfa, cloudVars, word, accepted, scanVars>>
    /\ UNCHANGED <<lexVars, closureVars>>

\* Dfa::accepts on the automaton returned by Dfa::from_regex
AcceptsCall ==
    /\ pc = "ready"
    /\ \E w \in Words(alphabet) :
          /\ word' = w
          /\ accepted' = Dfa_accepts(minimized, w)
    /\ pc' = "accepted"
    /\ UNCHANGED <<regexVars, nfa, subsetVars, dfa, cloudVars, minimized, scanVars>>
    /\ UNCHANGED <<lexVars, closureVars>>

\* Dfa::get_longest_accepted: entry
ScanCall ==
    /\ pc = "ready"
    /\ \E q \in Words(alphabet) : word' = q /\ istream' = q
    /\ current_state' = 0
    /\ last_mark' = 0
    /\ longest_accepted' = <<>>
    /\ token_buffer' = <<>>
    /\ pc' = "scanning"
    /\ UNCHANGED <<regexVars, nfa, subsetVars, dfa, cloudVars, minimized, accepted, scan_result>>
    /\ UNCHANGED <<lexVars, closureVars>>

\* the buffer is dropped instead of being pushed back
PushFrontRev_Drop(buffer, queue) == queue

\* token_buffer.into_iter().rev().for_each(|x| istream.push_front(x))
RECURSIVE PushFrontRev(_, _)
PushFrontRev(buffer, queue) ==
    IF buffer = <<>> THEN queue
    ELSE PushFrontRev(Front(buffer), <<Last(buffer)>> \o queue)

\* one iteration of `while !istream.is_empty()`; the else branch breaks and returns
ScanStep ==
    /\ pc = "scanning"
    /\ istream # <<>>
    /\ LET next_token == Head(istream) IN
       IF next_token \notin DOMAIN minimized.symbol_indices
       THEN \* self.symbol_indices[&..] panics on a missing key, the byte is popped
            /\ pc' = "scan_panic"
            /\ istream' = Tail(istream)
            /\ UNCHANGED <<current_state, last_mark, longest_accepted, token_buffer, scan_result>>
       ELSE LET state1 == minimized.transition[current_state + 1]
                                 [minimized.symbol_indices[next_token] + 1]
                buffer1 == Append(token_buffer, next_token)
            IN /\ current_state' = state1
               /\ IF minimized.marks[state1 + 1] > 0
                  THEN /\ longest_accepted' = longest_accepted \o buffer1
                       /\ last_mark' = minimized.marks[state1 + 1]
                       /\ token_buffer' = <<>>
                       /\ istream' = Tail(istream)
                       /\ UNCHANGED <<pc, scan_result>>
                  ELSE \* push the buffer back, break, return
                       /\ istream' = PushFrontRev(buffer1, Tail(istream))
                       /\ token_buffer' = buffer1
                       /\ pc' = "scanned"
                       /\ scan_result' = <<longest_accepted, last_mark>>
                       /\ UNCHANGED <<longest_accepted, last_mark>>
    /\ UNCHANGED <<regexVars, nfa, subsetVars, dfa, cloudVars, minimized, word, accepted>>
    /\ UNCHANGED <<lexVars, closureVars>>

\* the loop ends on the empty queue: return (longest_accepted, last_mark)
ScanReturn ==
    /\ pc = "scanning"
    /\ istream = <<>>
    /\ scan_result' = <<longest_accepted, last_mark>>
    /\ pc' = "scanned"
    /\ UNCHANGED <<regexVars, nfa, subsetVars, dfa, cloudVars, minimized, word, accepted,
                   istream, current_state, last_mark, longest_accepted, token_buffer>>
    /\ UNCHANGED <<lexVars, closureVars>>

\* ---------------------------------------------- Dfa::minimized on its own
\* The Dfa handed to minimized() is either any small Dfa (pub fields, Dfa::new) or the
\* one the subset construction of Dfa::from_nfa builds.
\* every Dfa with 1..MaxDfaStates states over the alphabet "ab", marks 0..MaxMark
DfaInputs ==
    UNION { { Dfa(m, t, IndexMap(<<"a", "b">>)) :
                m \in [1..n -> 0..MaxMark], t \in [1..n -> [1..2 -> 0..(n - 1)]] }
            : n \in 1..MaxDfaStates }

InitMin ==
    /\ pc = "built"
    /\ dfa \in DfaInputs
    /\ regex = <<>> /\ alphabet = <<"a", "b">> /\ mark_num = 0 /\ nfas = <<>>
    /\ nfa = PanicNfa
    /\ InitRest
    /\ InitLexRest

NextMin ==
    \/ NfaFromRegex
    \/ SubsetStart
    \/ SubsetStep
    \/ SubsetDone
    \/ FromDfa
    \/ DivideStep
    \/ IntoDfaGraph

SpecMin == (InitMin \/ Init) /\ [][NextMin]_vars

\* Dfa::from_regex up to the return of minimized(), on short regexes and the literal
\* ones; the while loop of divide keeps iterating: the code is sequential and never
\* suspends
FairRegexInputs ==
    { [regex |-> r, alphabet |-> <<"a", "b">>] : r \in SeqsUpTo(RegexSymbols, MaxFairRegexLen) }
        \cup ScenarioRegexes

InitFair ==
    /\ pc = "start"
    /\ \E i \in FairRegexInputs : regex = i.regex /\ alphabet = i.alphabet
    /\ mark_num \in 1..MaxMark
    /\ nfas = <<>>
    /\ nfa = PanicNfa
    /\ dfa = NoDfa
    /\ InitRest
    /\ InitLexRest

SpecDivideFair == InitFair /\ [][NextMin]_vars /\ WF_vars(DivideStep)

\* ---------------------------------------------- lib.rs: lexical_scan
LexBytes == {"v", "a", "r", "x", "1", "=", " ", "$"}

\* the literal scenario "var x ;"
ScenarioLex == { <<"v", "a", "r", " ", "x", " ", ";">> }

InitLex ==
    /\ pc = "lex"
    /\ istream \in SeqsUpTo(LexBytes, MaxLexLen) \cup ScenarioLex
    /\ word = istream
    /\ symbol_table = <<>> /\ name = <<>> /\ class = "" /\ lex_result = <<>>
    /\ regex = <<>> /\ alphabet = <<>> /\ mark_num = 0 /\ nfas = <<>>
    /\ seeds = <<>> /\ closure = <<>>
    /\ nfa = PanicNfa /\ dfa = NoDfa
    /\ subset_table = <<>> /\ transition = <<>> /\ marks = <<>> /\ stack = <<>>
    /\ state_count = 0
    /\ cloud = NoCloud /\ current_group_index = 0
    /\ minimized = NoDfa
    /\ accepted = FALSE
    /\ current_state = 0 /\ last_mark = 0
    /\ longest_accepted = <<>> /\ token_buffer = <<>>
    /\ scan_result = <<>>

pipelineVars ==
    <<regexVars, nfa, subsetVars, dfa, cloudVars, minimized, accepted,
      current_state, last_mark, longest_accepted, token_buffer, scan_result, closureVars>>

\* one iteration of `while !istream.is_empty()` of lexical_scan
LexStep ==
    /\ pc = "lex"
    /\ istream # <<>>
    /\ LET longest == LongestAccepted(istream) IN
       IF longest = <<>>
       THEN /\ pc' = "lex_err"
            /\ UNCHANGED <<istream, symbol_table, name, class>>
       ELSE /\ name' = longest[1].name
            /\ class' = longest[1].class
            /\ symbol_table' =
                  IF ~(ContainsIgnored(class') \/ name' \in DOMAIN symbol_table)
                  THEN MapInsert(symbol_table, name', class')
                  ELSE symbol_table
            /\ istream' = PopFront(istream, Len(name'))
            /\ UNCHANGED pc
    /\ UNCHANGED <<word, lex_result, pipelineVars>>

\* the queue is empty: convert the keys to strings and return Ok(symbol_table)
LexReturn ==
    /\ pc = "lex"
    /\ istream = <<>>
    /\ lex_result' = symbol_table
    /\ pc' = "lex_ok"
    /\ UNCHANGED <<word, istream, symbol_table, name, class, pipelineVars>>

NextLex ==
    \/ LexStep
    \/ LexReturn

SpecLex == InitLex /\ [][NextLex]_vars

\* ---------------------------------------------- Nfa::union, then Dfa::from_nfa
InitUnion ==
    /\ pc = "classes"
    /\ nfas \in UnionInputs
    /\ regex = <<>> /\ alphabet = <<>> /\ mark_num = 0
    /\ nfa = PanicNfa
    /\ dfa = NoDfa
    /\ InitRest
    /\ InitLexRest

NextUnion ==
    \/ NfaUnion
    \/ NfaFromRegex
    \/ SubsetStart
    \/ SubsetStep
    \/ SubsetDone
    \/ FromDfa
    \/ DivideStep
    \/ IntoDfaGraph

SpecUnion == (InitUnion \/ Init) /\ [][NextUnion]_vars

Next ==
    \/ NfaFromRegex
    \/ EmptyClosureCall
    \/ SubsetStart
    \/ SubsetStep
    \/ SubsetDone
    \/ FromDfa
    \/ DivideStep
    \/ IntoDfaGraph
    \/ AcceptsCall
    \/ ScanCall
    \/ ScanStep
    \/ ScanReturn

Spec == Init /\ [][Next]_vars

\* ====================================================================
\* Reference notions used by the properties
\* ====================================================================

\* number of "(" minus number of ")" in r[i..j]
Balance(r, i, j) ==
    Cardinality({k \in i..j : r[k] = "("}) - Cardinality({k \in i..j : r[k] = ")"})

Balanced(r) == Balance(r, 1, Len(r)) = 0 /\ \A k \in 1..Len(r) : Balance(r, 1, k) >= 0

\* positions of the '|' that are outside every parenthesis
TopBars(r) == {k \in 1..Len(r) : r[k] = "|" /\ Balance(r, 1, k) = 0}

\* r without its trailing stars
RECURSIVE StripStars(_)
StripStars(r) == IF r # <<>> /\ Last(r) = "*" THEN StripStars(Front(r)) ELSE r

\* first position of the last factor (an atom or a parenthesis, with its stars) of r,
\* 0 if r does not end with a factor
LastFactorStart(r) ==
    LET base == StripStars(r)
        n == Len(base)
    IN IF n = 0 THEN 0
       ELSE IF base[n] = ")"
            THEN IF \E i \in 1..n : Balance(base, i, n) = 0
                 THEN SetMax({i \in 1..n : Balance(base, i, n) = 0}) ELSE 0
            ELSE IF base[n] \in {"(", "|"} THEN 0 ELSE n

\* r is a regex of the grammar  alt ::= cat ('|' cat)*,  cat ::= rep rep*,
\* rep ::= atom '*'*,  atom ::= symbol of alpha | '(' alt ')'
RECURSIVE WellFormed(_, _)
WellFormed(r, alpha) ==
    /\ r # <<>>
    /\ Balanced(r)
    /\ IF TopBars(r) # {}
       THEN LET k == SetMax(TopBars(r))
            IN WellFormed(SubSeq(r, 1, k - 1), alpha) /\ WellFormed(SubSeq(r, k + 1, Len(r)), alpha)
       ELSE LET f == LastFactorStart(r) IN
            IF f = 0 THEN FALSE
            ELSE IF f > 1
            THEN WellFormed(SubSeq(r, 1, f - 1), alpha) /\ WellFormed(SubSeq(r, f, Len(r)), alpha)
            ELSE IF Last(r) = "*" THEN WellFormed(Front(r), alpha)
            ELSE IF r[1] = "(" THEN WellFormed(SubSeq(r, 2, Len(r) - 1), alpha)
            ELSE Len(r) = 1 /\ r[1] \in Range(alpha)

\* w is in the language of the well-formed regex r
RECURSIVE InLanguage(_, _)
InLanguage(r, w) ==
    IF TopBars(r) # {}
    THEN LET k == SetMax(TopBars(r))
         IN InLanguage(SubSeq(r, 1, k - 1), w) \/ InLanguage(SubSeq(r, k + 1, Len(r)), w)
    ELSE LET f == LastFactorStart(r) IN
         IF f > 1
         THEN \E k \in 0..Len(w) :
                 /\ InLanguage(SubSeq(r, 1, f - 1), SubSeq(w, 1, k))
                 /\ InLanguage(SubSeq(r, f, Len(r)), SubSeq(w, k + 1, Len(w)))
         ELSE IF Last(r) = "*"
         THEN \/ w = <<>>
              \/ \E k \in 1..Len(w) :
                    /\ InLanguage(Front(r), SubSeq(w, 1, k))
                    /\ InLanguage(r, SubSeq(w, k + 1, Len(w)))
         ELSE IF r[1] = "(" THEN InLanguage(SubSeq(r, 2, Len(r) - 1), w)
         ELSE w = <<r[1]>>

\* states of the NFA n reachable from the set S by epsilon edges alone
RECURSIVE EpsReach(_, _)
EpsReach(n, S) ==
    LET eps == Len(n.transition[1])
        next == S \cup UNION {Range(UnwrapOrEmpty(n.transition[s + 1][eps])) : s \in S}
    IN IF next = S THEN S ELSE EpsReach(n, next)

\* states of the NFA n reachable from state 0 on the word w
RECURSIVE NfaReach(_, _)
NfaReach(n, w) ==
    IF w = <<>> THEN EpsReach(n, {0})
    ELSE LET before == NfaReach(n, Front(w))
             c == Last(w)
         IN IF c \notin DOMAIN n.symbols_table THEN {}
            ELSE EpsReach(n, UNION {Range(UnwrapOrEmpty(
                                 n.transition[s + 1][n.symbols_table[c] + 1])) : s \in before})

NfaAccepts(n, w) == \E s \in NfaReach(n, w) : n.marks[s + 1] > 0

\* mark of the state the Dfa d reaches from state 0 on the word w over its alphabet
MarkOn(d, w) == d.marks[RunFrom(d, 0, w) + 1]

\* states s and t of d cannot be told apart by any word: same mark after every word
\* (words of length up to the number of states suffice)
Equivalent(d, s, t) ==
    \A w \in SeqsUpTo(DOMAIN d.symbol_indices, Len(d.marks)) :
        d.marks[RunFrom(d, s, w) + 1] = d.marks[RunFrom(d, t, w) + 1]

OverAlphabet(w, alpha) == Range(w) \subseteq Range(alpha)

IsPrefix(p, w) == Len(p) <= Len(w) /\ p = SubSeq(w, 1, Len(p))

AfterReady == pc \in {"ready", "accepted", "scanning", "scanned", "scan_panic"}

RegexAB == <<"(", "a", "|", "b", ")", "*">>

RegexCD == <<"(", "c", "d", ")", "*">>

RegexTextbook == <<"(", "a", "|", "b", ")", "*", "a", "(", "a", "|", "b", ")">>

\* ====================================================================
\* Properties
\* ====================================================================

\* characters the translator reads as operators or as the escape
ReservedChars == Range(OPERATORS) \cup {"\\"}

AcceptsLanguage ==
    /\ (WellFormed(regex, alphabet) /\ pc # "start") => pc # "panic"
    /\ (pc = "accepted" /\ WellFormed(regex, alphabet)) =>
          /\ accepted = InLanguage(regex, word)
          /\ ~OverAlphabet(word, alphabet) => ~accepted
          /\ (regex = RegexAB /\ word \in {<<>>, <<"a">>, <<"b">>, <<"a", "b", "b", "a">>})
                => accepted
          /\ (regex = RegexAB /\ word = <<"c">>) => ~accepted
          /\ (regex = RegexCD /\ word \in {<<>>, <<"c", "d">>, <<"c", "d", "c", "d">>})
                => accepted
          /\ (regex = RegexCD /\ word \in {<<"c">>, <<"d", "c">>}) => ~accepted

C2_ThreeAutomataAgree ==
    (pc = "accepted" /\ OverAlphabet(word, alphabet)) =>
        /\ NfaAccepts(nfa, word) = Dfa_accepts(dfa, word)
        /\ Dfa_accepts(dfa, word) = accepted

C2_Witness ==
    /\ pc = "accepted" /\ OverAlphabet(word, alphabet) /\ word # <<>>
    /\ NfaAccepts(nfa, word) /\ accepted
    /\ Len(minimized.marks) < Len(dfa.marks)

\* C3: minimized(D) has at most as many states as D and on every word over the alphabet
\* reaches a state with the mark of the state D reaches.
C3_MinimizedPreservesMarks ==
    pc = "ready" =>
        /\ Len(minimized.marks) <= Len(dfa.marks)
        /\ Len(minimized.transition) = Len(minimized.marks)
        /\ \A w \in SeqsUpTo(DOMAIN dfa.symbol_indices, MaxWordLen) :
              MarkOn(minimized, w) = MarkOn(dfa, w)

C3_Witness ==
    /\ pc = "ready"
    /\ Len(minimized.marks) < Len(dfa.marks)
    /\ \E i \in 1..Len(minimized.marks) : minimized.marks[i] > 0

\* C4: after minimized() no two distinct states of the result are equivalent.
C4_NoEquivalentStates ==
    pc = "ready" =>
        \A s, t \in 0..(Len(minimized.marks) - 1) :
            s # t => ~Equivalent(minimized, s, t)

\* C5: the Dfa built for (a|b)*a(a|b) over ab has exactly 4 states.
C5_TextbookFourStates ==
    (AfterReady /\ regex = RegexTextbook /\ alphabet = <<"a", "b">>) =>
        Len(minimized.transition) = 4 /\ Len(minimized.marks) = 4

C5_Witness ==
    /\ pc = "ready" /\ regex = RegexTextbook /\ alphabet = <<"a", "b">>
    /\ Len(dfa.marks) > Len(minimized.marks)

\* C6: the lexeme returned by get_longest_accepted (dfa.rs) on a queue of alphabet bytes
\* is an accepted prefix of the queue, or empty when no non-empty prefix is accepted,
\* and no strictly longer prefix of the queue is accepted.
C6_LengthMaximal ==
    (pc = "scanned" /\ OverAlphabet(word, alphabet)) =>
        LET lexeme == scan_result[1] IN
        /\ IsPrefix(lexeme, word)
        /\ lexeme # <<>> => Dfa_accepts(minimized, lexeme)
        /\ \A k \in (Len(lexeme) + 1)..Len(word) : ~Dfa_accepts(minimized, SubSeq(word, 1, k))

\* C7: when get_longest_accepted (dfa.rs) returns, the lexeme followed by the queue is
\* the queue before the call.
C7_RewindCorrect ==
    pc = "scanned" =>
        /\ IsPrefix(scan_result[1], word)
        /\ scan_result[1] \o istream = word

C7_Witness ==
    /\ pc = "scanned" /\ scan_result[1] # <<>> /\ istream # <<>> /\ token_buffer # <<>>

\* C8: when get_longest_accepted (dfa.rs) pops a byte outside the alphabet, it pushes the
\* byte back, stops and returns the lexeme and mark committed so far.
C8_UnknownByteNotConsumed ==
    [][ (pc = "scanning" /\ istream # <<>> /\ Head(istream) \notin Range(alphabet)) =>
            /\ pc' = "scanned"
            /\ istream' = istream
            /\ scan_result' = <<longest_accepted, last_mark>> ]_vars

\* C9: when the queue is not empty and no class automaton accepts a non-empty prefix of
\* it, lexical_scan stops with a failure.
NoClassAccepts(queue) ==
    \A i \in 1..Len(machines) : \A k \in 1..Len(queue) :
        ~FaDfa_accepts(machines[i].machine, SubSeq(queue, 1, k))

C9_StuckScanFails ==
    [][ (pc = "lex" /\ istream # <<>> /\ NoClassAccepts(istream)) => pc' = "lex_err" ]_vars

\* C10: each iteration of lexical_scan removes the longest prefix accepted by any class
\* automaton and records the class of highest priority (the last in machines) among
\* those that accept it; "var" is a keyword, "varx" and "v" are identifiers.
AcceptedLengths(queue) ==
    {k \in 1..Len(queue) : \E i \in 1..Len(machines) :
        FaDfa_accepts(machines[i].machine, SubSeq(queue, 1, k))}

LongestPrefix(queue) == SubSeq(queue, 1, MaxOrDefault(AcceptedLengths(queue)))

PriorityClass(lexeme) ==
    machines[SetMax({i \in 1..Len(machines) : FaDfa_accepts(machines[i].machine, lexeme)})].class

C10_LongestMatchHighestPriority ==
    [][ (pc = "lex" /\ istream # <<>>) =>
          /\ name' = LongestPrefix(istream)
          /\ istream = name' \o istream'
          /\ name' # <<>> =>
                /\ class' = PriorityClass(name')
                /\ (class' # "ignored" /\ name' \notin DOMAIN symbol_table)
                      => (name' \in DOMAIN symbol_table' /\ symbol_table'[name'] = class')
          /\ istream = <<"v", "a", "r">> => (name' = istream /\ class' = "keyword")
          /\ istream \in {<<"v", "a", "r", "x">>, <<"v">>}
                => (name' = istream /\ class' = "identifier") ]_vars

C10_Witness ==
    /\ pc = "lex" /\ word = <<"v", "a", "r">> /\ istream = <<>>
    /\ name = <<"v", "a", "r">> /\ class = "keyword"
    /\ symbol_table[<<"v", "a", "r">>] = "keyword"

\* C11: when lexical_scan returns Ok, the symbol table maps exactly the distinct lexemes
\* of the non-ignored tokens of the input to their class: a repeated lexeme appears once,
\* no ignored lexeme is in the table; "var x ;" gives {var -> keyword, x -> identifier}.
\* the tokens of the queue under longest match
RECURSIVE Tokens(_)
Tokens(queue) ==
    IF queue = <<>> \/ LongestPrefix(queue) = <<>> THEN <<>>
    ELSE LET lexeme == LongestPrefix(queue)
         IN << [name |-> lexeme, class |-> PriorityClass(lexeme)] >>
               \o Tokens(SubSeq(queue, Len(lexeme) + 1, Len(queue)))

KeptLexemes(queue) ==
    {Tokens(queue)[i].name : i \in {j \in 1..Len(Tokens(queue)) :
                                        Tokens(queue)[j].class # "ignored"}}

ClassesOf(queue, lexeme) ==
    {Tokens(queue)[i].class : i \in {j \in 1..Len(Tokens(queue)) :
                                         Tokens(queue)[j].name = lexeme}}

ScenarioVarX == <<"v", "a", "r", " ", "x", " ", ";">>

C11_SymbolTableExact ==
    pc = "lex_ok" =>
        /\ DOMAIN lex_result = KeptLexemes(word)
        /\ \A n \in KeptLexemes(word) : ClassesOf(word, n) = {lex_result[n]}
        /\ word = ScenarioVarX =>
              /\ DOMAIN lex_result = {<<"v", "a", "r">>, <<"x">>}
              /\ lex_result[<<"v", "a", "r">>] = "keyword"
              /\ lex_result[<<"x">>] = "identifier"

C11_Witness ==
    /\ pc = "lex_ok" /\ word = <<"x", " ", "x">>
    /\ DOMAIN lex_result = {<<"x">>} /\ lex_result[<<"x">>] = "identifier"

\* the NFA at hand was built by Nfa::union (Dfa::from_regex, whose mark_num is positive,
\* is not the caller)
UnionBuilt == mark_num = 0 /\ pc \notin {"classes", "panic"}

\* positive marks of the states of n reachable on w
PositiveMarks(n, w) == {n.marks[s + 1] : s \in NfaReach(n, w)} \ {0}

\* the symbols of a symbols_table in column order
OrderOf(table) ==
    [i \in 1..Cardinality(DOMAIN table) |-> CHOOSE c \in DOMAIN table : table[c] = i - 1]

UnionWords == SeqsUpTo(UnionSymbols(nfas), MaxWordLen)

\* C12: for every word w over the unified alphabet the positive marks of the states the
\* union NFA reaches on w are the union over i of the positive marks of the states Ni
\* reaches on w (nothing when w uses a symbol outside the alphabet of Ni); the union of
\* the reversed list accepts the same words.
C12_UnionPreservesMarks ==
    (UnionBuilt /\ pc = "nfa") =>
        LET reversed == Nfa_union(Reverse(nfas), OrderOf(nfa.symbols_table)) IN
        /\ DOMAIN nfa.symbols_table = UnionSymbols(nfas)
        /\ \A w \in UnionWords :
              /\ PositiveMarks(nfa, w) =
                    UNION {PositiveMarks(nfas[i], w) : i \in 1..Len(nfas)}
              /\ NfaAccepts(reversed, w) = NfaAccepts(nfa, w)

C12_Witness ==
    /\ UnionBuilt /\ pc = "nfa" /\ Len(nfas) = 2
    /\ DOMAIN nfas[1].symbols_table # DOMAIN nfas[2].symbols_table
    /\ OrderOf(nfa.symbols_table) = <<"c", "a", "b">>
    /\ PositiveMarks(nfa, <<"b">>) = {1, 2}
    /\ PositiveMarks(nfa, <<"c">>) = {}

\* C13: empty_closure(S), a None result read as the empty set, is the sorted
\* duplicate-free list of the states reachable from S by zero or more epsilon edges,
\* holds every state of S, and is a fixed point of empty_closure.
C13_ClosureIdempotent ==
    pc = "closed" =>
        LET result == UnwrapOrEmpty(closure) IN
        /\ Range(result) = EpsReach(nfa, Range(seeds))
        /\ result = SortedSeq(Range(result))
        /\ Range(seeds) \subseteq Range(result)
        /\ UnwrapOrEmpty(empty_closure(nfa, result)) = result

C13_Witness ==
    /\ pc = "closed" /\ Len(seeds) = 2 /\ seeds[1] > seeds[2]
    /\ closure # <<>> /\ Len(closure[1]) > 3

\* position i of r is the character that a backslash at i - 1 escapes
RECURSIVE Escaped(_, _)
Escaped(r, i) == i > 1 /\ r[i - 1] = "\\" /\ ~Escaped(r, i - 1)

\* position i of r is a backslash that escapes what follows
IsEscape(r, i) == r[i] = "\\" /\ ~Escaped(r, i)

NoBackslash(r) == \A i \in 1..Len(r) : r[i] # "\\"

\* r without its escaping backslashes
Unescape(r) ==
    LET idx == SortedSeq({i \in 1..Len(r) : ~IsEscape(r, i)})
    IN [k \in 1..Len(idx) |-> r[idx[k]]]

\* r has escapes, and each of them is followed by a character that is neither an
\* operator, nor a backslash, nor the "e" of the epsilon literal
EscapesPlainAtoms(r) ==
    /\ \E i \in 1..Len(r) : IsEscape(r, i)
    /\ \A i \in 1..Len(r) : IsEscape(r, i) =>
          /\ i < Len(r)
          /\ ~IsOperator(r[i + 1]) /\ r[i + 1] \notin {"\\", "e"}

\* postfix form of the well-formed regex r: '|' lowest, concatenation (written "+")
\* next, '*' highest, binary operators left-associative, parentheses only grouping
RECURSIVE RefPostfix(_)
RefPostfix(r) ==
    IF TopBars(r) # {}
    THEN LET k == SetMax(TopBars(r))
         IN RefPostfix(SubSeq(r, 1, k - 1)) \o RefPostfix(SubSeq(r, k + 1, Len(r))) \o <<"|">>
    ELSE LET f == LastFactorStart(r) IN
         IF f > 1
         THEN RefPostfix(SubSeq(r, 1, f - 1)) \o RefPostfix(SubSeq(r, f, Len(r))) \o <<"+">>
         ELSE IF Last(r) = "*" THEN Append(RefPostfix(Front(r)), "*")
         ELSE IF r[1] = "(" THEN RefPostfix(SubSeq(r, 2, Len(r) - 1))
         ELSE <<r[1]>>

\* C14: an escape suppresses operator interpretation for exactly one character: an
\* escaped atom is one term, concatenation insertion resumes after it, and a regex whose
\* escaped characters are not operators is translated, and accepts, as the regex
\* without the backslashes (\ab, a\bc).
C14_EscapeOneCharacter ==
    (pc # "start" /\ EscapesPlainAtoms(regex) /\ WellFormed(Unescape(regex), alphabet)) =>
        /\ pc # "panic"
        /\ Unescape(regex_to_postfix(regex).postfix) = RefPostfix(Unescape(regex))
        /\ pc = "accepted" => accepted = InLanguage(Unescape(regex), word)

\* the last character of r is a backslash with nothing to escape
TrailingEscape(r) == r # <<>> /\ IsEscape(r, Len(r))

\* the characters of r that are neither ( ) | * nor a backslash
AtomsOf(r) ==
    LET IsAtom(c) == c \notin {"(", ")", "|", "*", "\\"} IN SelectSeq(r, IsAtom)

\* r has an unmatched parenthesis, an operator with a missing operand (the empty regex
\* included) or a trailing backslash
Malformed(r) ==
    \/ TrailingEscape(r)
    \/ NoBackslash(r) /\ ~WellFormed(r, AtomsOf(r))

\* C15: Nfa::from_regex ends in a construction error on every malformed regex, for
\* every alphabet.
C15_MalformedFails ==
    (pc # "start" /\ Malformed(regex)) => pc = "panic"

PostfixIsReference ==
    (pc # "start" /\ NoBackslash(regex) /\ WellFormed(regex, alphabet)) =>
        /\ ~regex_to_postfix(regex).panic
        /\ regex_to_postfix(regex).postfix = RefPostfix(regex)
        /\ \A i \in 1..Len(regex_to_postfix(regex).postfix) :
              regex_to_postfix(regex).postfix[i] \notin {"(", ")"}

NfaWords == SeqsUpTo(DOMAIN nfa.symbols_table, MaxWordLen)

\* maximum mark over the states of n reachable on w, 0 if there is none
MaxMarkOn(n, w) == MaxOrDefault({n.marks[s + 1] : s \in NfaReach(n, w)})

\* C17: for every NFA N, a union of per-class NFAs included, and every word w, the mark
\* of the state Dfa::from_nfa(N) reaches on w is the maximum mark over the NFA states
\* reachable on w, 0 if there is none.
C17_MarksCombineByMax ==
    pc = "ready" =>
        \A w \in NfaWords :
            /\ MarkOn(dfa, w) = MaxMarkOn(nfa, w)
            /\ MarkOn(minimized, w) = MaxMarkOn(nfa, w)

C17_Witness ==
    /\ pc = "ready" /\ UnionBuilt /\ Len(nfas) = 2
    /\ nfas[1].marks[Len(nfas[1].marks)] = 2 /\ nfas[2].marks[Len(nfas[2].marks)] = 1
    /\ PositiveMarks(nfa, <<"b">>) = {1, 2}
    /\ MarkOn(minimized, <<"b">>) = 2

\* union of the NFA targets of the states of the subset S on the column symbol
MoveSet(n, S, symbol) ==
    UNION {Range(UnwrapOrEmpty(n.transition[S[i] + 1][symbol + 1])) : i \in 1..Len(S)}

\* C18: when the worklist of Dfa::from_nfa is empty, every DFA state corresponds to
\* exactly one distinct subset, every entry transition[d][sigma] is a valid state index
\* whose subset is the epsilon closure of the NFA targets of the subset of d on sigma,
\* and the empty subset, if reached, has mark 0 and all its transitions to itself.
C18_SubsetConstructionTotal ==
    (pc \in {"subset", "built"} /\ stack = <<>>) =>
        LET n == Len(subset_table)
            K == Cardinality(DOMAIN nfa.symbols_table)
        IN /\ Len(transition) = n /\ Len(marks) = n /\ state_count = n - 1
           /\ \A d, e \in 1..n : subset_table[d] = subset_table[e] => d = e
           /\ Range(subset_table[1]) = EpsReach(nfa, {0})
           /\ \A d \in 1..n :
                 /\ subset_table[d] = SortedSeq(Range(subset_table[d]))
                 /\ Len(transition[d]) = K
                 /\ \A symbol \in 0..(K - 1) :
                       /\ transition[d][symbol + 1] \in 0..(n - 1)
                       /\ Range(subset_table[transition[d][symbol + 1] + 1])
                             = EpsReach(nfa, MoveSet(nfa, subset_table[d], symbol))
                 /\ subset_table[d] = <<>> =>
                       /\ marks[d] = 0
                       /\ \A symbol \in 0..(K - 1) : transition[d][symbol + 1] = d - 1

C18_Witness ==
    /\ pc = "built" /\ stack = <<>> /\ Len(subset_table) >= 4
    /\ \E d \in 2..Len(subset_table) : subset_table[d] = <<>>
    /\ \E d \in 1..Len(subset_table) : Len(subset_table[d]) >= 3

\* index in c.groups of the block that holds the state s
BlockOf(c, s) == (CHOOSE g \in 1..Len(c.groups) : s \in Range(c.groups[g])) - 1

\* index at which the block g is presented when the block of state 0 is swapped to 0
Presented(c, g) ==
    IF g = BlockOf(c, 0) THEN 0 ELSE IF g = 0 THEN BlockOf(c, 0) ELSE g

\* C19: row 0 and mark 0 of the Dfa returned by minimized are the transitions and the
\* mark of the block that contains the original state 0, for every input Dfa.
C19_StartBlockAtZero ==
    pc = "ready" =>
        LET start_block == cloud.groups[BlockOf(cloud, 0) + 1] IN
        /\ minimized.marks[1] = dfa.marks[1]
        /\ minimized.marks[1] = MaxOrDefault({dfa.marks[s + 1] : s \in Range(start_block)})
        /\ \A s \in Range(start_block) :
              minimized.transition[1] =
                  [c \in 1..Len(dfa.transition[s + 1]) |->
                      Presented(cloud, BlockOf(cloud, dfa.transition[s + 1][c]))]

C19_Witness ==
    /\ pc = "ready" /\ Len(cloud.groups) >= 2 /\ dfa.marks[1] > 0
    /\ Len(cloud.groups[BlockOf(cloud, 0) + 1]) >= 2
    /\ minimized.transition[1] # Repeat(0, Len(minimized.transition[1]))

\* the blocks that the transitions of the state s lead to
Signature(c, s) ==
    [k \in 1..Len(c.state_transition[s + 1]) |-> BlockOf(c, c.state_transition[s + 1][k])]

\* the members of the block g agree on the blocks of their targets
Unsplittable(c, g) ==
    \A s, t \in Range(c.groups[g + 1]) : Signature(c, s) = Signature(c, t)

\* the blocks before the cursor have been walked since the last split without a split
DividePrefixStable ==
    pc = "divide" =>
        \A g \in 0..(current_group_index - 1) :
            g < Len(cloud.groups) => Unsplittable(cloud, g)

\* an iteration either splits (more blocks, at most one per state, restart from the
\* first block) or leaves the partition alone and moves to the next block; the loop is
\* left only when no block splits
DivideProgress ==
    /\ (pc = "divide" /\ pc' = "divide") =>
          \/ /\ Len(cloud'.groups) > Len(cloud.groups)
             /\ Len(cloud'.groups) <= Len(cloud.marks)
             /\ current_group_index' = 0
          \/ /\ cloud' = cloud
             /\ current_group_index' = current_group_index + 1
    /\ (pc = "divide" /\ pc' # "divide") =>
          /\ pc' = "ready"
          /\ \A g \in 0..(Len(cloud.groups) - 1) : Unsplittable(cloud, g)

DivideDone == pc \in {"divide", "ready"} /\ current_group_index >= Len(cloud.groups)

\* C20: DfaCloud::divide terminates for every Dfa: the walk restarts from the first
\* block after each split, each split strictly increases the number of blocks (at most
\* the number of states), and the loop ends exactly when a full pass splits no block.
C20_DivideTerminates ==
    /\ []DividePrefixStable
    /\ [][DivideProgress]_vars
    /\ (pc = "divide") ~> DivideDone

C20_Witness ==
    /\ pc = "divide" /\ current_group_index >= Len(cloud.groups)
    /\ Len(cloud.groups) >= 3
    /\ Len(cloud.groups) > Cardinality(Range(cloud.marks))

\* the states of the Dfa the cloud was made from
CloudStates(c) == 0..(Len(c.marks) - 1)

\* groups is a partition of the states into non-empty blocks without repetition
IsPartition(c) ==
    /\ \A g \in 1..Len(c.groups) :
          /\ c.groups[g] # <<>>
          /\ Cardinality(Range(c.groups[g])) = Len(c.groups[g])
          /\ Range(c.groups[g]) \subseteq CloudStates(c)
    /\ \A s \in CloudStates(c) :
          Cardinality({g \in 1..Len(c.groups) : s \in Range(c.groups[g])}) = 1

\* the members of a block carry one mark
EqualMarks(c) ==
    \A g \in 1..Len(c.groups) :
        \A s, t \in Range(c.groups[g]) : c.marks[s + 1] = c.marks[t + 1]

\* state_groups is the index of the block of each state
IndexConsistent(c) ==
    /\ Len(c.state_groups) = Len(c.marks)
    /\ \A s \in CloudStates(c) :
          /\ c.state_groups[s + 1] \in 0..(Len(c.groups) - 1)
          /\ s \in Range(c.groups[c.state_groups[s + 1] + 1])

\* the swap of into_dfa_graph leaves the identity translation as it is
SwapIsIdentity(c) ==
    LET identity == [i \in 1..Len(c.state_groups) |-> i - 1]
    IN Swap(identity, 0, c.state_groups[1]) = identity

\* row k and mark k of the graph are the row (in block indices) and the mark of the
\* members of groups[k]
GraphDescribesBlocks(c, d) ==
    /\ Len(d.transition) = Len(c.groups)
    /\ Len(d.marks) = Len(c.groups)
    /\ \A k \in 1..Len(c.groups) :
          \A s \in Range(c.groups[k]) :
              /\ d.marks[k] = c.marks[s + 1]
              /\ d.transition[k] =
                    [col \in 1..Len(c.state_transition[s + 1]) |->
                        c.state_groups[c.state_transition[s + 1][col] + 1]]

\* C21: after DfaCloud::from_dfa and after every iteration of divide, groups is a
\* partition of the states into non-empty blocks of equal mark, state_groups[s] is the
\* index of the block of s, and the block of state 0 is groups[0]; so the swap of
\* into_dfa_graph is the identity and row k and mark k of its output describe groups[k].
C21_CloudInvariant ==
    pc \in {"divide", "ready"} =>
        /\ IsPartition(cloud)
        /\ EqualMarks(cloud)
        /\ IndexConsistent(cloud)
        /\ 0 \in Range(cloud.groups[1])
        /\ cloud.state_groups[1] = 0
        /\ SwapIsIdentity(cloud)
        /\ pc = "ready" => GraphDescribesBlocks(cloud, minimized)

C21_Witness ==
    /\ pc = "ready"
    /\ Len(cloud.groups) >= 3
    /\ Len(cloud.groups) > Cardinality(Range(cloud.marks))
    /\ \E g \in 2..Len(cloud.groups) : cloud.groups[g][1] < cloud.groups[g - 1][1]

====
